---- MODULE Spec2Model ----
(***************************************************************************)
(* Model of src/storage/security/mod.rs: the enclave error model, the      *)
(* sensitive configuration model, the key/algorithm catalog and the        *)
(* enclave connection contract.                                            *)
(*                                                                         *)
(* Text is modelled as a sequence of one-character strings so that          *)
(* formatting, escaping and substring containment are computed, not        *)
(* assumed.                                                                *)
(***************************************************************************)
EXTENDS Integers, Sequences, FiniteSets, TLC

VARIABLES
    \* error model
    origin, err, supplied, suppliedMsg, native, kindResults, shown,
    \* sensitive configuration model
    config, initial, life, exitPath, heap, zeroizeCalled, out,
    fmtFrames, fmtOut, fmtState,
    \* key/algorithm catalog
    keyA, keyB, cmp,
    \* connection contract
    binding, holder, connected, lastResult, opLog

errVars == <<origin, err, supplied, suppliedMsg, native, kindResults, shown>>
cfgVars == <<config, initial, life, exitPath, heap, zeroizeCalled, out,
             fmtFrames, fmtOut, fmtState>>
keyVars == <<keyA, keyB, cmp>>
connVars == <<binding, holder, connected, lastResult, opLog>>
vars == <<errVars, cfgVars, keyVars, connVars>>

(***************************************************************************)
(* Bounds                                                                  *)
(***************************************************************************)
MaxMsgLen == 2
MaxKindCalls == 2
MaxSecretLen == 1
MaxPathLen == 1
MaxStack == 3
MaxCallers == 2
MaxHandles == 2
MaxOps == 2

(***************************************************************************)
(* Text helpers                                                            *)
(***************************************************************************)
NL == "\n"
Quote == "\""
Backslash == "\\"

RECURSIVE StringsUpTo(_, _)
StringsUpTo(chars, n) ==
    IF n = 0 THEN {<<>>}
    ELSE LET shorter == StringsUpTo(chars, n - 1)
         IN  shorter \cup {Append(s, c) : s \in shorter, c \in chars}

Contains(s, sub) ==
    \E i \in 0..(Len(s) - Len(sub)) : SubSeq(s, i + 1, i + Len(sub)) = sub

CountChar(s, c) == Cardinality({i \in 1..Len(s) : s[i] = c})

\* char::escape_debug as used by <str as Debug>::fmt
EscapeChar(c) ==
    IF c = Quote THEN <<Backslash, Quote>>
    ELSE IF c = Backslash THEN <<Backslash, Backslash>>
    ELSE IF c = NL THEN <<Backslash, "n">>
    ELSE <<c>>

RECURSIVE EscapeDebug(_)
EscapeDebug(s) ==
    IF s = <<>> THEN <<>> ELSE EscapeChar(Head(s)) \o EscapeDebug(Tail(s))

\* "{:?}" of a string: quoted and escaped
DebugStr(s) == <<Quote>> \o EscapeDebug(s) \o <<Quote>>

TxtConnectionFailure ==
    <<"A", "n", " ", "e", "r", "r", "o", "r", " ", "o", "c", "c", "u", "r",
      "r", "e", "d", " ", "w", "h", "i", "l", "e", " ", "c", "o", "n", "n",
      "e", "c", "t", "i", "n", "g", " ", "t", "o", " ", "t", "h", "e", " ",
      "e", "n", "c", "l", "a", "v", "e", ":", " ">>

TxtAccessDenied ==
    <<"A", "c", "c", "e", "s", "s", " ", "w", "a", "s", " ", "d", "e", "n",
      "i", "e", "d", " ", "t", "o", " ", "t", "h", "e", " ", "e", "n", "c",
      "l", "a", "v", "e", ":", " ">>

TxtItemNotFound ==
    <<"T", "h", "e", " ", "s", "p", "e", "c", "i", "f", "i", "e", "d", " ",
      "i", "t", "e", "m", " ", "i", "s", " ", "n", "o", "t", " ", "f", "o",
      "u", "n", "d", " ", "i", "n", " ", "t", "h", "e", " ", "k", "e", "y",
      "r", "i", "n", "g">>

TxtUnknownError ==
    <<"U", "n", "k", "n", "o", "w", "n", " ", "e", "r", "r", "o", "r">>

TxtError ==
    <<"E", "r", "r", "o", "r", ":", " ">>

TxtCausedBy ==
    <<"C", "a", "u", "s", "e", "d", " ", "b", "y", ":", " ">>

(***************************************************************************)
(* Error model: EnclaveErrorKind, EnclaveError                             *)
(***************************************************************************)
MsgChars == {"a", NL, Quote}
Messages == StringsUpTo(MsgChars, MaxMsgLen)

KindTags == {"ConnectionFailure", "AccessDenied", "ItemNotFound", "GeneralError"}

ConnectionFailure(m) == [tag |-> "ConnectionFailure", msg |-> m]
AccessDenied(m) == [tag |-> "AccessDenied", msg |-> m]
ItemNotFound == [tag |-> "ItemNotFound", msg |-> <<>>]
GeneralError(m) == [tag |-> "GeneralError", msg |-> m]

EnclaveErrorKind ==
    {ConnectionFailure(m) : m \in Messages}
        \cup {AccessDenied(m) : m \in Messages}
        \cup {ItemNotFound}
        \cup {GeneralError(m) : m \in Messages}

\* a plain displayable value used as a context (the D of Context<D>)
Str(m) == [tag |-> "Str", msg |-> m]
NoKind == [tag |-> "None", msg |-> <<>>]

\* #[fail(display = ...)] of each kind; a plain value displays as itself
DisplayD(d) ==
    CASE d.tag = "ConnectionFailure" -> TxtConnectionFailure \o d.msg
      [] d.tag = "AccessDenied" -> TxtAccessDenied \o d.msg
      [] d.tag = "ItemNotFound" -> TxtItemNotFound
      [] d.tag = "GeneralError" -> d.msg
      [] OTHER -> d.msg

\* failure::Context as the list of its contexts, outermost first: the head
\* is the context of this Context, the tail is its cause.
ContextNew(d) == <<d>>
ContextContext(c, d) == <<d>> \o c
GetContext(c) == Head(c)
Cause(c) == Tail(c)

NoErr == [inner |-> <<>>]

\* from_msg with the kind wrapped by the message instead of the reverse
from_msg_KindInside(k, m) == [inner |-> ContextContext(ContextNew(k), Str(m))]

from_msg(k, m) == [inner |-> ContextContext(ContextNew(Str(m)), k)]

kind(e) == GetContext(e.inner)

FromKind(k) == [inner |-> ContextContext(ContextNew(Str(<<>>)), k)]

\* Fail::cause for EnclaveError delegates to the inner context
FailCause(e) == Cause(e.inner)

\* the loop of Display::fmt over Fail::iter_chain(&self.inner)
RECURSIVE DisplayChain(_, _, _)
DisplayChain(chain, first, f) ==
    IF chain = <<>> THEN f
    ELSE IF first
         THEN DisplayChain(Cause(chain), FALSE,
                           f \o TxtError \o DisplayD(GetContext(chain)) \o <<NL>>)
         ELSE DisplayChain(Cause(chain), FALSE,
                           f \o TxtCausedBy \o DisplayD(GetContext(chain)) \o <<NL>>)

\* Display that writes the outermost context and does not walk the causes
DisplayErrorFirstOnly(e) == DisplayChain(<<GetContext(e.inner)>>, TRUE, <<>>)

DisplayError(e) == DisplayChain(e.inner, TRUE, <<>>)

\* security_framework::base::Error: an OSStatus (i32) and the platform's
\* message for it
ErrAccessDenied == -128
ErrItemNotFound == -25300
NativeCodes ==
    {ErrAccessDenied, ErrItemNotFound, -25293, -129, 0, -2147483647 - 1, 2147483647}
NativeMessages == Messages \ {<<>>}
NativeErrors == [code : NativeCodes, message : NativeMessages]
NoNative == [code |-> 0, message |-> <<>>]

\* the translation without its ItemNotFound arm
NativeKindNoItemNotFound(e) ==
    IF e.code = ErrAccessDenied THEN AccessDenied(DebugStr(e.message))
    ELSE GeneralError(TxtUnknownError)

NativeKind(e) ==
    IF e.code = ErrAccessDenied THEN AccessDenied(DebugStr(e.message))
    ELSE IF e.code = ErrItemNotFound THEN ItemNotFound
    ELSE GeneralError(TxtUnknownError)

FromNative(e) == FromKind(NativeKind(e))

ErrIdle ==
    /\ origin = "none"
    /\ err = NoErr
    /\ supplied = NoKind
    /\ suppliedMsg = <<>>
    /\ native = NoNative
    /\ kindResults = <<>>
    /\ shown = [done |-> FALSE, text |-> <<>>]

NewFromMsg ==
    /\ origin = "none"
    /\ \E k \in EnclaveErrorKind, m \in Messages :
          /\ err' = from_msg(k, m)
          /\ supplied' = k
          /\ suppliedMsg' = m
    /\ origin' = "from_msg"
    /\ UNCHANGED <<native, kindResults, shown>>

NewFromKind ==
    /\ origin = "none"
    /\ \E k \in EnclaveErrorKind :
          /\ err' = FromKind(k)
          /\ supplied' = k
    /\ origin' = "from_kind"
    /\ UNCHANGED <<suppliedMsg, native, kindResults, shown>>

NewFromNative ==
    /\ origin = "none"
    /\ \E e \in NativeErrors :
          /\ err' = FromNative(e)
          /\ native' = e
    /\ origin' = "from_native"
    /\ UNCHANGED <<supplied, suppliedMsg, kindResults, shown>>

CallKind ==
    /\ origin # "none"
    /\ Len(kindResults) < MaxKindCalls
    /\ kindResults' = Append(kindResults, kind(err))
    /\ UNCHANGED <<origin, err, supplied, suppliedMsg, native, shown>>

CallDisplay ==
    /\ origin # "none"
    /\ ~shown.done
    /\ shown' = [done |-> TRUE, text |-> DisplayError(err)]
    /\ UNCHANGED <<origin, err, supplied, suppliedMsg, native, kindResults>>

(***************************************************************************)
(* Sensitive configuration model: EnclaveConfig, OsKeyRingConfig           *)
(***************************************************************************)
TxtMask ==
    <<"*", "*", "*", "*", "*", "*", "*", "*", "*">>

TxtNone ==
    <<"N", "o", "n", "e">>

TxtSomeOpen ==
    <<"S", "o", "m", "e", "(">>

TxtDisplayHead ==
    <<"O", "s", "K", "e", "y", "R", "i", "n", "g", "C", "o", "n", "f", "i",
      "g", " ", "(", "p", "a", "t", "h", ":", " ">>

TxtUsername ==
    <<",", " ", "u", "s", "e", "r", "n", "a", "m", "e", ":", " ">>

TxtPassword ==
    <<",", " ", "p", "a", "s", "s", "w", "o", "r", "d", ":", " ">>

TxtDebugHead ==
    <<"O", "s", "K", "e", "y", "R", "i", "n", "g", "C", "o", "n", "f", "i",
      "g", " ", "{", " ", "p", "a", "t", "h", ":", " ">>

TxtDebugTail ==
    <<" ", "}">>

TxtEnclaveConfigHead ==
    <<"E", "n", "c", "l", "a", "v", "e", "C", "o", "n", "f", "i", "g", " ",
      "(">>

SecretChars == {"x", Quote}
Secrets == StringsUpTo(SecretChars, MaxSecretLen) \cup {TxtMask}
PathChars == {"x", "/"}
Paths == StringsUpTo(PathChars, MaxPathLen)

None == [some |-> FALSE, v |-> <<>>]
Some(s) == [some |-> TRUE, v |-> s]
Option(S) == {None} \cup {Some(s) : s \in S}

OsKeyRingConfig ==
    [path : Option(Paths), username : Option(Secrets), password : Option(Secrets)]

NoOsKeyRingConfig == [path |-> None, username |-> None, password |-> None]

OsKeyRing(c) == [variant |-> "OsKeyRing", os |-> c]
YubiHsm == [variant |-> "YubiHsm", os |-> NoOsKeyRingConfig]
EnclaveConfig == {OsKeyRing(c) : c \in OsKeyRingConfig} \cup {YubiHsm}

\* "{:?}" of an Option whose payload renders as a quoted, escaped string
DebugOption(o) ==
    IF o.some THEN TxtSomeOpen \o DebugStr(o.v) \o <<")">> ELSE TxtNone

\* the secret passed through unmasked
MapMaskRaw(o) == o

\* Option::map(|_| "*********")
MapMask(o) == IF o.some THEN Some(TxtMask) ELSE None

\* impl fmt::Display for OsKeyRingConfig
DisplayOsKeyRingConfig(c) ==
    TxtDisplayHead \o DebugOption(c.path)
        \o TxtUsername \o DebugOption(MapMask(c.username))
        \o TxtPassword \o DebugOption(MapMask(c.password))
        \o <<")">>

\* #[derive(Debug)] on OsKeyRingConfig
DebugOsKeyRingConfig(c) ==
    TxtDebugHead \o DebugOption(c.path)
        \o TxtUsername \o DebugOption(c.username)
        \o TxtPassword \o DebugOption(c.password)
        \o TxtDebugTail

\* the bytes of the heap buffers backing the three fields; a freed buffer
\* keeps its bytes until something writes to it
Zero == "NUL"
Zeroed(bytes) == [i \in 1..Len(bytes) |-> Zero]
HeapOf(c) == [path |-> c.path.v, username |-> c.username.v, password |-> c.password.v]

\* Zeroize for Option<String>: the bytes are overwritten, the string cleared
ZeroizeOption(o) == IF o.some THEN Some(<<>>) ELSE None

\* #[derive(Zeroize)] on OsKeyRingConfig: zeroize() of every field
ZeroizeConfig(c) ==
    [path |-> ZeroizeOption(c.path),
     username |-> ZeroizeOption(c.username),
     password |-> ZeroizeOption(c.password)]

ZeroizeHeap(c, h) ==
    [path |-> IF c.path.some THEN Zeroed(h.path) ELSE h.path,
     username |-> IF c.username.some THEN Zeroed(h.username) ELSE h.username,
     password |-> IF c.password.some THEN Zeroed(h.password) ELSE h.password]

\* the drop glue of OsKeyRingConfig: no Drop impl is derived, the buffers
\* are released as they are
DropHeap(c, h) == h

ExitPaths == {"scope_end", "early_return", "unwind"}

NoOut == [by |-> "none", of |-> NoOsKeyRingConfig, text |-> <<>>]

CfgIdle ==
    /\ config = YubiHsm
    /\ initial = YubiHsm
    /\ life = "live"
    /\ exitPath = "none"
    /\ heap = HeapOf(NoOsKeyRingConfig)
    /\ zeroizeCalled = FALSE
    /\ out = NoOut
    /\ fmtFrames = 0
    /\ fmtOut = <<>>
    /\ fmtState = "idle"

CfgInit ==
    /\ config \in EnclaveConfig
    /\ initial = config
    /\ life = "live"
    /\ exitPath = "none"
    /\ heap = HeapOf(config.os)
    /\ zeroizeCalled = FALSE
    /\ out = NoOut
    /\ fmtFrames = 0
    /\ fmtOut = <<>>
    /\ fmtState = "idle"

Usable == life = "live" /\ fmtState = "idle"

\* an explicit call of the derived zeroize()
CallZeroize ==
    /\ Usable
    /\ config.variant = "OsKeyRing"
    /\ config' = OsKeyRing(ZeroizeConfig(config.os))
    /\ heap' = ZeroizeHeap(config.os, heap)
    /\ zeroizeCalled' = TRUE
    /\ UNCHANGED <<initial, life, exitPath, out, fmtFrames, fmtOut, fmtState>>

\* the value goes out of scope on one of the exit paths
DropConfig ==
    /\ Usable
    /\ \E e \in ExitPaths : exitPath' = e
    /\ life' = "dropped"
    /\ heap' = DropHeap(config.os, heap)
    /\ UNCHANGED <<config, initial, zeroizeCalled, out, fmtFrames, fmtOut, fmtState>>

FmtDisplay ==
    /\ Usable
    /\ config.variant = "OsKeyRing"
    /\ out' = [by |-> "display", of |-> config.os,
               text |-> DisplayOsKeyRingConfig(config.os)]
    /\ UNCHANGED <<config, initial, life, exitPath, heap, zeroizeCalled,
                   fmtFrames, fmtOut, fmtState>>

FmtDebug ==
    /\ Usable
    /\ config.variant = "OsKeyRing"
    /\ out' = [by |-> "debug", of |-> config.os,
               text |-> DebugOsKeyRingConfig(config.os)]
    /\ UNCHANGED <<config, initial, life, exitPath, heap, zeroizeCalled,
                   fmtFrames, fmtOut, fmtState>>

\* a caller formats an EnclaveConfig with "{}": the first frame of
\* <EnclaveConfig as Display>::fmt
FmtEnclaveConfigCall ==
    /\ Usable
    /\ fmtFrames' = 1
    /\ fmtOut' = <<>>
    /\ fmtState' = "running"
    /\ UNCHANGED <<config, initial, life, exitPath, heap, zeroizeCalled, out>>

\* the innermost frame runs write!(f, "EnclaveConfig ({})", self): the
\* literal piece is written, then the argument self is formatted with
\* Display, which is this same function on the same value
FmtEnclaveConfigEnter ==
    /\ fmtState = "running"
    /\ fmtFrames < MaxStack
    /\ fmtOut' = fmtOut \o TxtEnclaveConfigHead
    /\ fmtFrames' = fmtFrames + 1
    /\ UNCHANGED <<config, initial, life, exitPath, heap, zeroizeCalled, out, fmtState>>

\* the stack is exhausted: the process aborts
FmtEnclaveConfigOverflow ==
    /\ fmtState = "running"
    /\ fmtFrames = MaxStack
    /\ fmtState' = "overflow"
    /\ life' = "aborted"
    /\ UNCHANGED <<config, initial, exitPath, heap, zeroizeCalled, out, fmtFrames, fmtOut>>

(***************************************************************************)
(* Key/algorithm catalog: EnclaveKey and its parameter types               *)
(***************************************************************************)
EcCurves == {"Secp256r1", "Secp384r1", "Secp512r1", "Secp256k1"}
EcdsaAlgorithm == {"Sha1", "Sha256", "Sha384", "Sha512"}
HmacAlgorithm == {"Sha1", "Sha256", "Sha384", "Sha512"}
RsaMgf == {"Sha1", "Sha256", "Sha384", "Sha512"}
AesSizes == {"Aes128", "Aes192", "Aes256"}
AesModes == {"Ccm", "Gcm", "GcmSiv"}

WrappingKey == {<<"Aes", s, m>> : s \in AesSizes, m \in AesModes} \cup {<<"XChachaPoly1305">>}

\* a descriptor is its variant name followed by its parameters
EnclaveKey ==
    {<<"Ed25519">>, <<"X25519">>}
        \cup {<<"Ecdh", c>> : c \in EcCurves}
        \cup {<<"Ecdsa", c, a>> : c \in EcCurves, a \in EcdsaAlgorithm}
        \cup {<<"RsaOaep", m>> : m \in RsaMgf}
        \cup {<<"RsaPkcs15", m>> : m \in RsaMgf}
        \cup {<<"RsaPss", m>> : m \in RsaMgf}
        \cup {<<"Hmac", a>> : a \in HmacAlgorithm}
        \cup {<<"WrapKey">> \o w : w \in WrappingKey}

CatalogTypes ==
    {"EnclaveKey", "WrappingKey", "AesSizes", "AesModes", "EcCurves",
     "EcdsaAlgorithm", "HmacAlgorithm", "RsaMgf"}

\* the #[derive(...)] list of each catalog type
Derives == [t \in CatalogTypes |-> {"Clone", "Copy", "Debug"}]

\* a == b on a catalog type: the operator exists only for a type that
\* implements PartialEq
CompareAs(t, a, b) ==
    IF "PartialEq" \in Derives[t]
    THEN IF a = b THEN "equal" ELSE "distinct"
    ELSE "unavailable"

KeyIdle ==
    /\ keyA = <<"Ed25519">>
    /\ keyB = <<"Ed25519">>
    /\ cmp = "none"

KeyInit ==
    /\ keyA \in EnclaveKey
    /\ keyB \in EnclaveKey
    /\ cmp = "none"

CompareKeys ==
    /\ cmp = "none"
    /\ cmp' = CompareAs("EnclaveKey", keyA, keyB)
    /\ UNCHANGED <<keyA, keyB>>

\* let b = a; for a Copy type
CopyKey ==
    /\ cmp = "none"
    /\ keyA # keyB
    /\ keyB' = keyA
    /\ UNCHANGED <<keyA, cmp>>

(***************************************************************************)
(* Connection contract: EnclaveLike::connect, EnclaveLike::close           *)
(***************************************************************************)
Callers == 1..MaxCallers
Handles == 1..MaxHandles

NoResult == [caller |-> 0, ok |-> FALSE, handle |-> 0, error |-> "None"]

\* EnclaveResult<Self>: Ok carries a handle and no error, Err an error and
\* no handle
Ok(c, h) == [caller |-> c, ok |-> TRUE, handle |-> h, error |-> "None"]
Err(c, k) == [caller |-> c, ok |-> FALSE, handle |-> 0, error |-> k]

\* close(&self): the binding stays usable
MoveIntoCloseByRef(h) == binding

\* close(self) takes the handle by value: the caller's binding is moved
\* into the call and cannot be named afterwards
MoveIntoClose(h) == [binding EXCEPT ![h] = "moved"]

ConnIdle ==
    /\ binding = [h \in Handles |-> "unborn"]
    /\ holder = [h \in Handles |-> {}]
    /\ connected = 0
    /\ lastResult = NoResult
    /\ opLog = [h \in Handles |-> <<>>]

ConnectOk ==
    /\ connected < MaxHandles
    /\ \E c \in Callers :
          /\ binding' = [binding EXCEPT ![connected + 1] = "live"]
          /\ holder' = [holder EXCEPT ![connected + 1] = {c}]
          /\ lastResult' = Ok(c, connected + 1)
    /\ connected' = connected + 1
    /\ UNCHANGED opLog

ConnectErr ==
    /\ \E c \in Callers, k \in KindTags : lastResult' = Err(c, k)
    /\ UNCHANGED <<binding, holder, connected, opLog>>

\* a key operation borrows the handle
KeyOp ==
    \E c \in Callers, h \in Handles :
        /\ binding[h] = "live"
        /\ c \in holder[h]
        /\ Len(opLog[h]) < MaxOps
        /\ opLog' = [opLog EXCEPT ![h] = Append(@, "use")]
        /\ UNCHANGED <<binding, holder, connected, lastResult>>

Close ==
    \E c \in Callers, h \in Handles :
        /\ binding[h] = "live"
        /\ c \in holder[h]
        /\ binding' = MoveIntoClose(h)
        /\ opLog' = [opLog EXCEPT ![h] = Append(@, "close")]
        /\ UNCHANGED <<holder, connected, lastResult>>

(***************************************************************************)
(* Specifications                                                          *)
(***************************************************************************)
ErrInit == ErrIdle /\ CfgIdle /\ KeyIdle /\ ConnIdle
ErrNext ==
    \/ NewFromMsg /\ UNCHANGED <<cfgVars, keyVars, connVars>>
    \/ NewFromKind /\ UNCHANGED <<cfgVars, keyVars, connVars>>
    \/ NewFromNative /\ UNCHANGED <<cfgVars, keyVars, connVars>>
    \/ CallKind /\ UNCHANGED <<cfgVars, keyVars, connVars>>
    \/ CallDisplay /\ UNCHANGED <<cfgVars, keyVars, connVars>>
SpecError == ErrInit /\ [][ErrNext]_vars

ConfigInit == ErrIdle /\ CfgInit /\ KeyIdle /\ ConnIdle
ConfigNext ==
    \/ CallZeroize /\ UNCHANGED <<errVars, keyVars, connVars>>
    \/ DropConfig /\ UNCHANGED <<errVars, keyVars, connVars>>
    \/ FmtDisplay /\ UNCHANGED <<errVars, keyVars, connVars>>
    \/ FmtDebug /\ UNCHANGED <<errVars, keyVars, connVars>>
    \/ FmtEnclaveConfigCall /\ UNCHANGED <<errVars, keyVars, connVars>>
    \/ FmtEnclaveConfigEnter /\ UNCHANGED <<errVars, keyVars, connVars>>
    \/ FmtEnclaveConfigOverflow /\ UNCHANGED <<errVars, keyVars, connVars>>
SpecConfig == ConfigInit /\ [][ConfigNext]_vars

CatalogInit == ErrIdle /\ CfgIdle /\ KeyInit /\ ConnIdle
CatalogNext ==
    \/ CompareKeys /\ UNCHANGED <<errVars, cfgVars, connVars>>
    \/ CopyKey /\ UNCHANGED <<errVars, cfgVars, connVars>>
SpecCatalog == CatalogInit /\ [][CatalogNext]_vars

ConnInit == ErrIdle /\ CfgIdle /\ KeyIdle /\ ConnIdle
ConnNext ==
    \/ ConnectOk /\ UNCHANGED <<errVars, cfgVars, keyVars>>
    \/ ConnectErr /\ UNCHANGED <<errVars, cfgVars, keyVars>>
    \/ KeyOp /\ UNCHANGED <<errVars, cfgVars, keyVars>>
    \/ Close /\ UNCHANGED <<errVars, cfgVars, keyVars>>
SpecConn == ConnInit /\ [][ConnNext]_vars


(***************************************************************************)
(* Properties of the error model (checked under SpecError)                 *)
(***************************************************************************)

\* C3: translating a native platform error is a total function of its status
\* code: -128 gives AccessDenied, -25300 gives ItemNotFound, every other code
\* gives GeneralError, and the result is always one of the four kinds.
C3_NativeTranslationIsTotal ==
    /\ \A e \in NativeErrors :
          /\ FromNative(e) # NoErr
          /\ kind(FromNative(e)).tag \in KindTags
    /\ origin = "from_native" =>
          /\ kind(err).tag \in KindTags
          /\ (native.code = -128) => (kind(err).tag = "AccessDenied")
          /\ (native.code = -25300) => (kind(err).tag = "ItemNotFound")
          /\ (native.code \notin {-128, -25300}) => (kind(err).tag = "GeneralError")
          /\ \A i \in 1..Len(kindResults) : kindResults[i] = kind(err)

C3_Witness ==
    /\ origin = "from_native"
    /\ native.code = -25300
    /\ kindResults = <<ItemNotFound>>

\* C4: a translated native error carries a human-readable message and keeps
\* the original native error as a chained cause: walking the cause chain of
\* the translated error reaches an entry that is the original error.
C4_NativeErrorKeptAsCause ==
    origin = "from_native" =>
        /\ DisplayD(kind(err)) # <<>>
        /\ \E i \in 1..Len(FailCause(err)) :
              DisplayD(FailCause(err)[i]) = native.message

\* C5: kind() of an error built by from_msg(k, m) or from(k) is k, payload
\* message included; every call of kind() returns that same value, and a call
\* of kind() leaves the error unchanged.
C5_KindIsSuppliedKind ==
    /\ [](origin \in {"from_msg", "from_kind"} =>
             /\ kind(err) = supplied
             /\ \A i \in 1..Len(kindResults) : kindResults[i] = supplied)
    /\ [][Len(kindResults') > Len(kindResults) => err' = err]_vars

C5_Witness ==
    /\ origin = "from_msg"
    /\ supplied = AccessDenied(<<"a", Quote>>)
    /\ suppliedMsg = <<"a">>
    /\ Len(kindResults) = MaxKindCalls

\* the newline-terminated lines of a text, and what follows the last newline
NewlineAt(text) == {i \in 1..Len(text) : text[i] = NL}

NthNewline(text, k) ==
    IF k = 0 THEN 0
    ELSE CHOOSE p \in NewlineAt(text) :
             Cardinality({q \in NewlineAt(text) : q < p}) = k - 1

LinesOf(text) ==
    LET n == Cardinality(NewlineAt(text))
    IN  [lines |-> [k \in 1..n |->
                       SubSeq(text, NthNewline(text, k - 1) + 1,
                              NthNewline(text, k) - 1)],
         rest |-> SubSeq(text, NthNewline(text, n) + 1, Len(text))]

\* the i-th entry of the chain as Display writes it
EntryLine(e, i) ==
    (IF i = 1 THEN TxtError ELSE TxtCausedBy) \o DisplayD(e.inner[i]) \o <<NL>>

RECURSIVE ConcatEntries(_, _)
ConcatEntries(e, n) ==
    IF n = 0 THEN <<>> ELSE ConcatEntries(e, n - 1) \o EntryLine(e, n)

ExactlyNLines(e, text) ==
    LET l == LinesOf(text)
    IN  /\ l.rest = <<>>
        /\ Len(l.lines) = Len(e.inner)
        /\ \A i \in 1..Len(l.lines) :
              l.lines[i] = (IF i = 1 THEN TxtError ELSE TxtCausedBy)
                               \o DisplayD(e.inner[i])

\* C6 (as stated): displaying an error whose chain has N entries writes
\* exactly N newline-terminated lines, the first prefixed "Error: " and the
\* others "Caused by: ", most recent context first.
C6_DisplayWritesExactlyNLines ==
    shown.done => ExactlyNLines(err, shown.text)

\* C6 (amended): displaying an error whose chain has N entries writes exactly
\* N newline-terminated entries, most recent context first, the first
\* prefixed "Error: " and the others "Caused by: ", each text verbatim; they
\* are exactly N lines whenever no entry's text contains a line break.  An
\* error built by from_msg(kind, msg) has the kind's text in the "Error: "
\* entry and msg in the following "Caused by: " entry.
C6_DisplayWritesNEntries ==
    shown.done =>
        /\ shown.text = ConcatEntries(err, Len(err.inner))
        /\ (\A i \in 1..Len(err.inner) : ~Contains(DisplayD(err.inner[i]), <<NL>>))
              => ExactlyNLines(err, shown.text)
        /\ origin = "from_msg" =>
              shown.text = TxtError \o DisplayD(supplied) \o <<NL>>
                               \o TxtCausedBy \o suppliedMsg \o <<NL>>

C6_Witness ==
    /\ shown.done
    /\ origin = "from_msg"
    /\ supplied = GeneralError(<<"a">>)
    /\ suppliedMsg = <<"a", NL>>
    /\ CountChar(shown.text, NL) = 3

(***************************************************************************)
(* Properties of the configuration model (checked under SpecConfig)        *)
(***************************************************************************)

\* C1: once an OsKeyRingConfig whose password was set has been dropped, on
\* whichever exit path, the memory that held the password no longer holds the
\* original password bytes, whether or not zeroize() was called explicitly.
C1_DroppedPasswordIsScrubbed ==
    (/\ life = "dropped"
     /\ initial.variant = "OsKeyRing"
     /\ initial.os.password.some
     /\ initial.os.password.v # <<>>)
        => ~Contains(heap.password, initial.os.password.v)

\* the config with every supplied secret replaced by the empty string
Blanked(c) ==
    [c EXCEPT !.username = IF @.some THEN Some(<<>>) ELSE None,
              !.password = IF @.some THEN Some(<<>>) ELSE None]

Render(by, c) ==
    IF by = "debug" THEN DebugOsKeyRingConfig(c) ELSE DisplayOsKeyRingConfig(c)

\* the rendered text holds the non-empty secret s, and holds it because of the
\* secret fields: the same rendering of the blanked config does not hold it
\* (a secret spelled by the fixed text, the mask or the path is held by every
\* rendering and is not counted)
Reveals(o, s) ==
    /\ s # <<>>
    /\ Contains(o.text, s)
    /\ ~Contains(Render(o.by, Blanked(o.of)), s)

\* C2: neither the Debug nor the Display rendering of an OsKeyRingConfig
\* contains the literal username or the literal password, whatever they are.
C2_RenderingsHideSecrets ==
    out.by \in {"display", "debug"} =>
        /\ out.of.username.some => ~Reveals(out, out.of.username.v)
        /\ out.of.password.some => ~Reveals(out, out.of.password.v)

\* C9: formatting an EnclaveConfig with Display terminates: the Display
\* implementation is never entered again on the same value while it is
\* running, and the stack is never exhausted.
C9_DisplayDoesNotReenter ==
    /\ fmtFrames <= 1
    /\ fmtState # "overflow"

TxtSomeMask ==
    <<"S", "o", "m", "e", "(", Quote, "*", "*", "*", "*", "*", "*", "*", "*",
      "*", Quote, ")">>

SamePresence(c, d) ==
    /\ c.username.some = d.username.some
    /\ c.password.some = d.password.some

\* C10: the Display rendering of an OsKeyRingConfig depends only on the path
\* and on which of username and password are present: a present secret
\* renders as Some("*********"), an absent one as None, and two configs with
\* the same path render alike exactly when the same secrets are present.
C10_DisplayDependsOnPresenceOnly ==
    out.by = "display" =>
        /\ out.text =
               TxtDisplayHead \o DebugOption(out.of.path)
                   \o TxtUsername
                   \o (IF out.of.username.some THEN TxtSomeMask ELSE TxtNone)
                   \o TxtPassword
                   \o (IF out.of.password.some THEN TxtSomeMask ELSE TxtNone)
                   \o <<")">>
        /\ \A u \in Option(Secrets), p \in Option(Secrets) :
              LET d == [path |-> out.of.path, username |-> u, password |-> p]
              IN  (DisplayOsKeyRingConfig(d) = out.text) <=> SamePresence(d, out.of)

C10_Witness ==
    /\ out.by = "display"
    /\ out.of.username = Some(<<>>)
    /\ out.of.password = Some(<<"x">>)
    /\ out.of.path = Some(<<"x">>)

(***************************************************************************)
(* Properties of the key catalog (checked under SpecCatalog)               *)
(***************************************************************************)

\* C7: two EnclaveKey values built from identical parameters compare equal,
\* and two that differ in variant, curve or hash compare distinct.
C7_KeysCompareAsDescriptors ==
    cmp # "none" => cmp = (IF keyA = keyB THEN "equal" ELSE "distinct")

(***************************************************************************)
(* Properties of the connection contract (checked under SpecConn)          *)
(***************************************************************************)

\* C8: close consumes the handle, so that no key operation and no second
\* close is ever performed on a handle after its close; each successful
\* connect yields a fresh handle held by exactly one caller, and a failed
\* connect yields an error and no handle.
C8_CloseConsumesHandle ==
    /\ [](/\ \A h \in Handles : \A i \in 1..Len(opLog[h]) :
                (opLog[h][i] = "close") => (i = Len(opLog[h]))
          /\ \A h \in Handles :
                (binding[h] # "unborn") => (Cardinality(holder[h]) = 1)
          /\ lastResult.ok =>
                /\ lastResult.handle \in Handles
                /\ holder[lastResult.handle] = {lastResult.caller}
                /\ lastResult.error = "None"
          /\ (~lastResult.ok /\ lastResult.caller # 0) =>
                /\ lastResult.handle = 0
                /\ lastResult.error \in KindTags)
    /\ [][(connected' # connected) =>
             /\ lastResult'.ok
             /\ binding[lastResult'.handle] = "unborn"
             /\ opLog[lastResult'.handle] = <<>>]_vars
    /\ [][(lastResult' # lastResult /\ ~lastResult'.ok) =>
             (binding' = binding /\ holder' = holder)]_vars

C8_Witness ==
    /\ opLog[1] = <<"use", "close">>
    /\ binding[1] = "moved"
    /\ binding[2] = "live"
    /\ ~lastResult.ok
    /\ lastResult.caller # 0

====
